---- MODULE Spec2Model ----
(***************************************************************************)
(* Model of src/streamlit_app.py: the vocabulary quiz.                     *)
(*                                                                         *)
(* The script main() is re-executed from its first line on every user      *)
(* interaction; st.session_state is the only state that survives a run.    *)
(* One action of the model is one interaction: the widget callback (if     *)
(* the widget has one) followed by the complete run of main().  A widget   *)
(* can be used when the last run created it (page): a run creates the      *)
(* widgets of the question before its Reset Quiz block changes the state.  *)
(* An uncaught exception ends the run at the statement that raised it.     *)
(*                                                                         *)
(* Words are the integers 1..n, None (of a word) is 0; a definition is     *)
(* the integer that identifies the row it was written in.                  *)
(***************************************************************************)
EXTENDS Integers, Sequences, FiniteSets, TLC

\* ------------------------------------------------------------------ bounds

\* Longest vocabulary table handed to generate_question in SpecGen.
MaxRows == 4
\* ClickSubmit does not raise the score above MaxScore.
MaxScore == 2
\* ClickNext does not raise question_number above MaxQuestionNumber.
MaxQuestionNumber == 2

\* ------------------------------------------------------------ program data

\* k of random.sample(df["word"].tolist(), 3), line 107.
NumDistractors == 3

\* Python's None where a word is expected (user_answer, line 160).
None == 0

\* required_columns of load_data, line 78.
required_columns == {"word", "translation", "definition", "example_usage"}

\* Row i of a table: its word and its definition (the other two columns are
\* only displayed).  Row i's definition is i: definitions identify rows.
Row(w, i) == [word |-> w, definition |-> i]

\* ------------------------------------------------------------ load_data

\* A CSV source as pd.read_csv sees it: kind "absent" (no upload, fallback
\* file missing), "empty" (no bytes: nothing to parse), "malformed" (not
\* parseable as delimited data) or "csv" (a header with columns cols and the
\* data rows).
Src(kind, cols, rows) == [kind |-> kind, cols |-> cols, rows |-> rows]

\* pd.read_csv (lines 68-75): the exception it raises ("" for none).
read_csv_raises(src) ==
    CASE src.kind = "absent"    -> "FileNotFoundError"
      [] src.kind = "empty"     -> "EmptyDataError"
      [] src.kind = "malformed" -> "ParserError"
      [] OTHER                  -> ""

\* The data frame value: none is TRUE for Python's None.
DataFrame(cols, rows) == [none |-> FALSE, error |-> "", columns |-> cols, rows |-> rows]
NoFrame(err) == [none |-> TRUE, error |-> err, columns |-> {}, rows |-> <<>>]

\* Mutant of load_data: "any" for "all" at line 79, one required column is
\* enough.
load_data_any_column(src) ==
    IF read_csv_raises(src) # ""
    THEN NoFrame(read_csv_raises(src))
    ELSE IF ~(\E col \in required_columns : col \in src.cols)
         THEN NoFrame("ValueError")
         ELSE DataFrame(src.cols, src.rows)

\* load_data (lines 62-99): the frame, or None with the error shown.
load_data(src) ==
    IF read_csv_raises(src) # ""
    THEN NoFrame(read_csv_raises(src))
    ELSE IF ~(\A col \in required_columns : col \in src.cols)
         THEN NoFrame("ValueError")
         ELSE DataFrame(src.cols, src.rows)

\* ------------------------------------------------------ generate_question

\* The one-to-one maps from 1..k into 1..n: the positions a draw without
\* replacement can take, in the order drawn.
Injections(k, n) ==
    {f \in [1..k -> 1..n] : \A a, b \in 1..k : a # b => f[a] # f[b]}

\* random.sample(population, k) (line 107): every list of k entries taken from
\* k different positions.  No list exists when k > len(population): Python
\* raises ValueError there.
random_sample(population, k) ==
    {[j \in 1..k |-> population[f[j]]] : f \in Injections(k, Len(population))}

\* random.shuffle(x) (line 108): every rearrangement of x.
random_shuffle(x) ==
    {[j \in 1..Len(x) |-> x[f[j]]] : f \in Injections(Len(x), Len(x))}

\* df["word"].tolist()
word_column(rows) == [i \in 1..Len(rows) |-> rows[i].word]

Question(d, w, c) == [definition |-> d, correct_word |-> w, choices |-> c]

\* Mutant of generate_question: the definition is read from a second, separate
\* df.sample(1) instead of the row of correct_word.
generate_question_other_definition(rows) ==
    UNION { UNION { { Question(rows[k].definition, rows[i].word, c)
                      : c \in random_shuffle(<<rows[i].word>> \o s), k \in 1..Len(rows) }
                    : s \in random_sample(word_column(rows), NumDistractors) }
            : i \in 1..Len(rows) }

\* generate_question (lines 103-109): every (definition, correct_word, choices)
\* the call can return.  df.sample(1) raises ValueError on a frame without
\* rows and random.sample raises it on fewer than 3 rows: the call raises
\* exactly when this set is empty.
generate_question(rows) ==
    UNION { UNION { { Question(rows[i].definition, rows[i].word, c)
                      : c \in random_shuffle(<<rows[i].word>> \o s) }
                    : s \in random_sample(word_column(rows), NumDistractors) }
            : i \in 1..Len(rows) }

\* Tables of the quiz sessions of Spec: n rows with n different words.
Table(n) == [i \in 1..n |-> Row(i, i)]
SessionTables == {Table(2), Table(4)}

\* generate_question on the session tables, computed once.
QuestionCache == [t \in SessionTables |-> generate_question(t)]
questions_for(rows) ==
    IF rows \in SessionTables THEN QuestionCache[rows] ELSE generate_question(rows)

\* What a call generate_question(df) produces: one of the questions it can
\* return, or ValueError where it can return none.
ValueError == Question(-1, None, <<>>)
generate_outcomes(rows) ==
    IF questions_for(rows) = {} THEN {ValueError} ELSE questions_for(rows)

\* ------------------------------------------------------- st.session_state

VARIABLES
    source,         \* the CSV behind uploaded_file / default_vocab.csv (139-145)
    session_state,  \* st.session_state: key -> value, empty before the first run
    page,           \* the widgets the last run created and the question they show
    last            \* history: the last interaction and what its run raised

vars == <<source, session_state, page, last>>

\* current_question = None (line 152).
NoQuestion == Question(0, None, <<>>)

\* result_message: the text shown and the word it names (lines 188-195).
Message(text, w) == [text |-> text, word |-> w]
NoMessage == Message("", None)

Keys ==
    {"current_question", "score", "question_number", "show_details",
     "user_answer", "result_message"}

\* The value each key is created with (lines 151-162).
InitialValue(k) ==
    CASE k = "current_question" -> NoQuestion
      [] k = "score"            -> 0
      [] k = "question_number"  -> 1
      [] k = "show_details"     -> FALSE
      [] k = "user_answer"      -> None
      [] k = "result_message"   -> NoMessage

\* st.session_state of a new session: no key.
EmptySessionState == [k \in {} |-> 0]

\* Lines 151-162: every key that is not in st.session_state is created.
init_session_state(ss) ==
    IF DOMAIN ss = Keys
    THEN ss
    ELSE [k \in Keys \cup DOMAIN ss |-> IF k \in DOMAIN ss THEN ss[k] ELSE InitialValue(k)]

\* The condition of line 165.
start_condition(ss) == ss.current_question = NoQuestion /\ ~ss.show_details

\* Mutant of start_quiz: question_number set to 0 at line 169.
start_quiz_from_zero(ss, q) ==
    [ss EXCEPT !.current_question = q,
               !.score = 0,
               !.question_number = 0,
               !.user_answer = None,
               !.result_message = NoMessage]

\* Lines 167-171, with q what generate_question returned.
start_quiz(ss, q) ==
    [ss EXCEPT !.current_question = q,
               !.score = 0,
               !.question_number = 1,
               !.user_answer = None,
               !.result_message = NoMessage]

\* Mutant of on_click_submit: line 187 moved out of the if, every answer scores.
on_click_submit_always_scores(ss, correct_word) ==
    IF ss.user_answer = correct_word
    THEN [ss EXCEPT !.score = @ + 1,
                    !.result_message = Message("Correct!", None),
                    !.show_details = TRUE]
    ELSE [ss EXCEPT !.score = @ + 1,
                    !.result_message = Message("Incorrect", correct_word),
                    !.show_details = TRUE]

\* on_click_submit (lines 185-196); correct_word is the name bound at line 175
\* by the run that created the button.
on_click_submit(ss, correct_word) ==
    IF ss.user_answer = correct_word
    THEN [ss EXCEPT !.score = @ + 1,
                    !.result_message = Message("Correct!", None),
                    !.show_details = TRUE]
    ELSE [ss EXCEPT !.result_message = Message("Incorrect", correct_word),
                    !.show_details = TRUE]

\* What a callback leaves: st.session_state and the function that raised in
\* it ("" when it reached its end).
Outcome(ss, raised) == [ss |-> ss, raised |-> raised]

\* Mutant of on_next_question: line 213 left out, user_answer is kept.
on_next_question_keeps_answer(ss, q) ==
    IF q = ValueError
    THEN Outcome([ss EXCEPT !.question_number = @ + 1], "generate_question")
    ELSE Outcome([ss EXCEPT !.question_number = @ + 1,
                            !.current_question = q,
                            !.show_details = FALSE,
                            !.result_message = NoMessage], "")

\* on_next_question (lines 209-214), with q what generate_question produces at
\* line 211: line 210 has run when it raises.
on_next_question(ss, q) ==
    IF q = ValueError
    THEN Outcome([ss EXCEPT !.question_number = @ + 1], "generate_question")
    ELSE Outcome([ss EXCEPT !.question_number = @ + 1,
                            !.current_question = q,
                            !.show_details = FALSE,
                            !.user_answer = None,
                            !.result_message = NoMessage], "")

\* Lines 230-235.
reset_quiz(ss) ==
    [ss EXCEPT !.current_question = NoQuestion,
               !.score = 0,
               !.question_number = 1,
               !.show_details = FALSE,
               !.user_answer = None,
               !.result_message = NoMessage]

\* The word handed to show_word_details (lines 204-206).
details_word(ss) ==
    IF ss.user_answer = ss.current_question.correct_word
    THEN ss.current_question.correct_word
    ELSE ss.user_answer

\* Line 114: df[df["word"] == word].iloc[0] raises IndexError when no row of
\* df has the word.
show_word_details_raises(df, word) ==
    ~(\E i \in 1..Len(df.rows) : df.rows[i].word = word)

\* The run reaches line 201 with show_details set.
details_shown(ss) == ss.current_question # NoQuestion /\ ss.show_details

\* The run reaches line 202 and show_word_details raises at line 114.
details_fail(ss, df) ==
    /\ details_shown(ss)
    /\ show_word_details_raises(df, details_word(ss))

\* ------------------------------------------------------------ pronunciation

\* What the dictionary site and the download do when a word is looked up:
\* the page has the audio link and the file downloads; the page has no
\* a.play-pron-v2 element; requests raises a RequestException; the element is
\* there without its data-file, data-dir or data-lang attribute; the page is
\* fine and urlretrieve fails.
LookupOutcomes ==
    {"audio", "no_element", "network_error", "malformed_page", "download_failure"}

\* get_pronunciation (lines 13-38): whether it returns a URL (None otherwise)
\* and the exception that leaves it.  Line 36 catches RequestException only:
\* the KeyError of lines 28-30 is not caught.
get_pronunciation(web) ==
    CASE web = "network_error"  -> [audio_url |-> FALSE, raised |-> ""]
      [] web = "no_element"     -> [audio_url |-> FALSE, raised |-> ""]
      [] web = "malformed_page" -> [audio_url |-> FALSE, raised |-> "KeyError"]
      [] OTHER                  -> [audio_url |-> TRUE, raised |-> ""]

\* download_audio (lines 41-54): whether it returns a file path.  Line 51
\* catches every exception of urlretrieve.
download_audio(audio_url, web) == audio_url /\ web # "download_failure"

\* Lines 119-125: what show_word_details puts on the page for the audio.
pronunciation_shown(web) ==
    IF get_pronunciation(web).audio_url
    THEN IF download_audio(TRUE, web) THEN "st.audio" ELSE ""
    ELSE "Pronunciation not found."

\* The exception that leaves lines 119-125 ("" for none): download_audio lets
\* none out.
lookup_raises(web) == get_pronunciation(web).raised

\* The ways lines 119-125 can end.
LookupResults == {lookup_raises(web) : web \in LookupOutcomes}

\* A run that does not reach line 119.
NoLookup == ""

\* ----------------------------------------------------------------- main

\* What a run of main leaves: st.session_state, the function that raised ("" when
\* the run reached its end or st.stop()), the widgets it created, and the
\* question their callbacks and options were built from (line 175).
Run(ss, raised, widgets, question) ==
    [ss |-> ss, raised |-> raised,
     page |-> [widgets |-> widgets, question |-> question]]

\* Lines 181-198: the radio and Submit Answer exist when there is a question.
question_widgets(ss) ==
    IF ss.current_question # NoQuestion THEN {"radio", "submit"} ELSE {}

\* Lines 173-235 of a run that is past the Start Quiz block with session state
\* ss and the widgets shown so far: the details are shown when show_details
\* is set, with lines 119-125 ending in lookup, and the Reset Quiz block runs
\* last, after the widgets of the question were created.
main_tail(ss, df, clicked, lookup, shown) ==
    LET upto198 == shown \cup question_widgets(ss)
        upto229 == upto198 \cup (IF details_shown(ss) THEN {"next"} ELSE {})
                           \cup {"reset"}
    IN  IF details_fail(ss, df)
        THEN Run(ss, "show_word_details", upto198, ss.current_question)
        ELSE IF details_shown(ss) /\ lookup # ""
             THEN Run(ss, "get_pronunciation", upto198, ss.current_question)
             ELSE IF clicked = "reset"
                  THEN Run(reset_quiz(ss), "", upto229, ss.current_question)
                  ELSE Run(ss, "", upto229, ss.current_question)

\* Mutant of main: lines 147-148 left out, the run goes on without df.
main_without_stop(ss, src, clicked, q, lookup) ==
    LET df == load_data(src)
        s1 == init_session_state(ss)
        shown == IF start_condition(s1) THEN {"start"} ELSE {}
    IN  IF start_condition(s1) /\ clicked = "start"
        THEN IF q = ValueError
             THEN Run(s1, "generate_question", shown, NoQuestion)
             ELSE main_tail(start_quiz(s1, q), df, clicked, lookup, shown)
        ELSE main_tail(s1, df, clicked, lookup, shown)

\* main (lines 132-235) run on session state ss with the CSV source src;
\* clicked names the button whose click caused the run ("" for none), q is
\* what generate_question produces if the run calls it (line 167) and lookup
\* how lines 119-125 end if the run reaches them.
main(ss, src, clicked, q, lookup) ==
    LET df == load_data(src)
        s1 == init_session_state(ss)
        shown == IF start_condition(s1) THEN {"start"} ELSE {}
    IN  IF df.none
        THEN Run(ss, "", {}, NoQuestion)
        ELSE IF start_condition(s1) /\ clicked = "start"
             THEN IF q = ValueError
                  THEN Run(s1, "generate_question", shown, NoQuestion)
                  ELSE main_tail(start_quiz(s1, q), df, clicked, lookup, shown)
             ELSE main_tail(s1, df, clicked, lookup, shown)

\* A run of main that does not call generate_question.
rerun(ss, src, clicked, lookup) == main(ss, src, clicked, NoQuestion, lookup)

\* How lines 119-125 can end in a run on session state ss: the run calls
\* get_pronunciation when it reaches line 119.
lookups(ss, src) ==
    IF /\ ~load_data(src).none
       /\ DOMAIN ss = Keys
       /\ details_shown(ss)
       /\ ~details_fail(ss, load_data(src))
    THEN LookupResults
    ELSE {NoLookup}

\* current_num of the score line "Score: score / current_num" (lines 221-222).
current_num(ss) == IF ss.question_number - 1 > 0 THEN ss.question_number - 1 ELSE 0

\* The widgets on the page: those the last run created.
Offered == page.widgets

Last(op, raised) == [op |-> op, raised |-> raised]

\* ---------------------------------------------------------------- sources

AllColumns == required_columns
Csv(rows) == Src("csv", AllColumns, rows)

\* The sources of Spec: every way load_data fails, and the session tables.
SessionSources ==
    {Src("absent", {}, <<>>), Src("empty", {}, <<>>), Src("malformed", {}, <<>>),
     Src("csv", AllColumns \ {"translation"}, Table(3))}
    \cup {Csv(t) : t \in SessionTables}

\* ---------------------------------------------------------------- actions

\* The first run of a session.
Open(srcs) ==
    /\ source \in srcs
    /\ LET o == rerun(EmptySessionState, source, "", NoLookup)
       IN  /\ session_state = o.ss
           /\ page = o.page
    /\ last = Last("open", "")

\* The user puts another CSV, one of srcs, in the uploader (line 139): a run
\* without click.  The uploader is the first widget of every run.
UploadFrom(srcs) ==
    \E src \in srcs :
        /\ src # source
        /\ source' = src
        /\ \E lookup \in lookups(session_state, src) :
              LET o == rerun(session_state, src, "", lookup)
              IN  /\ session_state' = o.ss
                  /\ page' = o.page
                  /\ last' = Last("upload", o.raised)

Upload == UploadFrom(SessionSources)

\* "Start Quiz" (lines 165-171).  The button answers the click in a run that
\* creates it again; generate_question is called in that case only.
ClickStart ==
    /\ "start" \in Offered
    /\ \E q \in (IF start_condition(session_state)
                 THEN generate_outcomes(load_data(source).rows)
                 ELSE {NoQuestion}) :
       \E lookup \in lookups(session_state, source) :
          LET o == main(session_state, source, "start", q, lookup)
          IN  /\ session_state' = o.ss
              /\ page' = o.page
              /\ last' = Last("start", o.raised)
    /\ UNCHANGED source

\* The radio bound to key "user_answer" (lines 181-183): the user picks one of
\* the options the page shows.
Select ==
    /\ "radio" \in Offered
    /\ \E i \in 1..Len(page.question.choices) :
          LET picked == [session_state EXCEPT
                            !.user_answer = page.question.choices[i]]
          IN  \E lookup \in lookups(picked, source) :
                 LET o == rerun(picked, source, "", lookup)
                 IN  /\ session_state' = o.ss
                     /\ page' = o.page
                     /\ last' = Last("select", o.raised)
    /\ UNCHANGED source

\* "Submit Answer" (line 198): on_click_submit of the run that created the
\* button, then the run.
ClickSubmit ==
    /\ "submit" \in Offered
    /\ session_state.user_answer = page.question.correct_word
          => session_state.score < MaxScore
    /\ LET submitted == on_click_submit(session_state, page.question.correct_word)
       IN  \E lookup \in lookups(submitted, source) :
              LET o == rerun(submitted, source, "", lookup)
              IN  /\ session_state' = o.ss
                  /\ page' = o.page
                  /\ last' = Last("submit", o.raised)
    /\ UNCHANGED source

\* "Next Question" (line 218): on_next_question, then the run, which does not
\* reach line 119 because line 212 cleared show_details.  When
\* generate_question raises at line 211 the callback ends there and no run
\* replaces the page.
ClickNext ==
    /\ "next" \in Offered
    /\ session_state.question_number < MaxQuestionNumber
    /\ \E q \in generate_outcomes(load_data(source).rows) :
          LET c == on_next_question(session_state, q)
              o == IF c.raised = ""
                   THEN rerun(c.ss, source, "", NoLookup)
                   ELSE [ss |-> c.ss, raised |-> c.raised, page |-> page]
          IN  /\ session_state' = o.ss
              /\ page' = o.page
              /\ last' = Last("next", o.raised)
    /\ UNCHANGED source

\* "Reset Quiz" (lines 229-235): the run creates the widgets of the question
\* before it reaches line 229.
ClickReset ==
    /\ "reset" \in Offered
    /\ \E lookup \in lookups(session_state, source) :
          LET o == rerun(session_state, source, "reset", lookup)
          IN  /\ session_state' = o.ss
              /\ page' = o.page
              /\ last' = Last("reset", o.raised)
    /\ UNCHANGED source

Init == Open(SessionSources)

Next == Upload \/ ClickStart \/ Select \/ ClickSubmit \/ ClickNext \/ ClickReset

Spec == Init /\ [][Next]_vars

\* ------------------------------------------- SpecGen: generate_question

\* The tables handed to generate_question: up to MaxRows rows, the word of
\* row i any of 1..i, so that every pattern of equal and different words among
\* the rows occurs.
GenTables ==
    UNION { { [i \in 1..n |-> Row(w[i], i)]
              : w \in {f \in [1..n -> 1..n] : \A i \in 1..n : f[i] <= i} }
            : n \in 0..MaxRows }

GenSources == {Csv(t) : t \in GenTables}

\* A session on one table in which Start Quiz calls generate_question and
\* Reset Quiz clears the question again.
InitGen == Open(GenSources)

NextGen == ClickStart \/ ClickReset

SpecGen == InitGen /\ [][NextGen]_vars

\* ------------------------------------------------------ SpecLoad: load_data

\* The columns of the CSV headers handed to load_data: the required ones and
\* one more.
LoadColumns == required_columns \cup {"notes"}

\* The sources handed to load_data: the three ways pd.read_csv fails, and every
\* CSV whose header has some of LoadColumns, with 0 (the header alone) to
\* MaxRows data rows.
LoadSources ==
    {Src("absent", {}, <<>>), Src("empty", {}, <<>>), Src("malformed", {}, <<>>)}
    \cup {Src("csv", cols, Table(n)) : cols \in (SUBSET LoadColumns) \ {{}},
                                      n \in 0..MaxRows}

\* A session in which one source after the other is put in the uploader.
InitLoad == Open(LoadSources)

UploadLoad == UploadFrom(LoadSources)

NextLoad == UploadLoad

SpecLoad == InitLoad /\ [][NextLoad]_vars

\* ----------------------------------------------------------------- claims

\* Shorthands of the claims.
Initialized == DOMAIN session_state = Keys
Rows == load_data(source).rows
Idle == session_state.current_question = NoQuestion /\ ~session_state.show_details
Answering == session_state.current_question # NoQuestion /\ ~session_state.show_details
Revealed == session_state.current_question # NoQuestion /\ session_state.show_details
Elements(seq) == {seq[j] : j \in 1..Len(seq)}
PairwiseDistinct(seq) == \A a, b \in 1..Len(seq) : a # b => seq[a] # seq[b]

\* C1: a step of Submit Answer adds exactly 1 to the score when user_answer is
\* the correct_word of the current question and adds 0 for any other answer;
\* either way it sets show_details and leaves current_question and
\* question_number as they were.
C1_SubmitScores ==
    [][last'.op = "submit" =>
         /\ session_state'.score = session_state.score
               + (IF /\ session_state.current_question # NoQuestion
                     /\ session_state.user_answer
                           = session_state.current_question.correct_word
                  THEN 1 ELSE 0)
         /\ session_state'.show_details
         /\ session_state'.current_question = session_state.current_question
         /\ session_state'.question_number = session_state.question_number]_vars

\* C1 witness: a correct answer has been submitted and has scored.
C1_Witness ==
    /\ Initialized
    /\ last.op = "submit"
    /\ session_state.user_answer = session_state.current_question.correct_word
    /\ session_state.score = 1
    /\ session_state.show_details

\* C2 (as claimed): within a session only Reset Quiz lowers score or
\* question_number; the score grows only by a Submit Answer whose answer is the
\* correct word and question_number grows only by Next Question.
C2_CountersMonotone ==
    [][(Initialized /\ Initialized') =>
         /\ last'.op # "reset" =>
               /\ session_state'.score >= session_state.score
               /\ session_state'.question_number >= session_state.question_number
         /\ session_state'.score > session_state.score =>
               /\ last'.op = "submit"
               /\ session_state.user_answer = session_state.current_question.correct_word
         /\ session_state'.question_number > session_state.question_number =>
               last'.op = "next"]_vars

\* C3 (as claimed): a question generated from a table with at least 4 different
\* words has 4 pairwise different choices.
C3_ChoicesDistinct ==
    (/\ Initialized
     /\ last.op = "start"
     /\ last.raised = ""
     /\ Cardinality(Elements(word_column(Rows))) >= 4)
    => PairwiseDistinct(session_state.current_question.choices)

\* C4: from a table with at least 4 rows generate_question returns a question
\* with exactly 4 choices, the correct word among them, every choice a word of
\* the table, and the definition that of a row whose word is the correct word.
C4_QuestionWellFormed ==
    (Initialized /\ last.op = "start" /\ Len(Rows) >= 4) =>
        LET q == session_state.current_question
        IN  /\ last.raised = ""
            /\ q # NoQuestion
            /\ Len(q.choices) = 4
            /\ q.correct_word \in Elements(q.choices)
            /\ Elements(q.choices) \subseteq Elements(word_column(Rows))
            /\ \E i \in 1..Len(Rows) :
                  Rows[i].word = q.correct_word /\ Rows[i].definition = q.definition

\* C4 witness: a question generated from a table of 4 rows, two of them with
\* the same word.
C4_Witness ==
    /\ Initialized
    /\ last.op = "start"
    /\ Len(Rows) >= 4
    /\ ~PairwiseDistinct(word_column(Rows))
    /\ session_state.current_question # NoQuestion

\* C5 (as claimed): Reset Quiz is offered in Idle, Answering and Revealed, and
\* a step of it leaves every key at its initial value.
C5_ResetFromAnyState ==
    /\ []((Initialized /\ ~load_data(source).none /\ (Idle \/ Answering \/ Revealed))
            => "reset" \in Offered)
    /\ [][last'.op = "reset" =>
            session_state' = [k \in Keys |-> InitialValue(k)]]_vars

\* C6: a run creates Start Quiz only in Idle, so the button is on the page in
\* Idle or, left over, right after its own click; a click on it acts only in
\* Idle, and once its question is generated the session is Answering with
\* score 0 and question_number 1.
C6_Start ==
    /\ []("start" \in Offered => (Idle \/ last.op = "start"))
    /\ [][last'.op = "start" =>
            /\ ~Idle => (session_state' = session_state /\ last'.raised = "")
            /\ (Idle /\ last'.raised = "") =>
                  /\ session_state'.current_question # NoQuestion
                  /\ ~session_state'.show_details
                  /\ session_state'.score = 0
                  /\ session_state'.question_number = 1]_vars

\* C6 witness: Start Quiz has generated a question.
C6_Witness ==
    /\ Initialized
    /\ last.op = "start"
    /\ last.raised = ""
    /\ Answering

\* C7: a Next Question whose question is generated adds exactly 1 to
\* question_number, stores a question generate_question returns for the table,
\* clears show_details, user_answer and result_message, and keeps the score.
C7_Next ==
    [][(last'.op = "next" /\ last'.raised # "generate_question") =>
         /\ session_state'.question_number = session_state.question_number + 1
         /\ session_state'.current_question \in questions_for(Rows)
         /\ ~session_state'.show_details
         /\ session_state'.user_answer = None
         /\ session_state'.result_message = NoMessage
         /\ session_state'.score = session_state.score]_vars

\* C7 witness: Next Question has acted after a scored answer.
C7_Witness ==
    /\ Initialized
    /\ last.op = "next"
    /\ last.raised = ""
    /\ session_state.question_number = 2
    /\ session_state.score = 1
    /\ Answering

\* C8 (as claimed): a Start Quiz or Next Question in which generate_question
\* raises leaves every key of the session state as it was.
C8_FailedGenerationKeepsState ==
    [][(last'.op \in {"start", "next"} /\ last'.raised = "generate_question") =>
         session_state' = session_state]_vars

\* C9 (as claimed): generate_question raises on every table with fewer than 4
\* rows.
C9_FailsBelowFourRows ==
    (Initialized /\ last.op = "start" /\ Len(Rows) < 4) =>
        /\ last.raised = "generate_question"
        /\ session_state.current_question = NoQuestion

\* A source load_data cannot turn into a table: not found, empty, malformed,
\* or without one of the required columns.
BadSource(src) ==
    \/ src.kind \in {"absent", "empty", "malformed"}
    \/ ~(required_columns \subseteq src.cols)

\* C10: load_data returns None for every bad source; a run on it creates no
\* key in a new session, changes no key of a running one, and offers none of
\* Start Quiz, Submit Answer, Next Question and Reset Quiz.
C10_LoadFailureHalts ==
    /\ (BadSource(source) => session_state = EmptySessionState)
    /\ [](BadSource(source) =>
            /\ load_data(source).none
            /\ Offered \cap {"start", "submit", "next", "reset"} = {})
    /\ [][BadSource(source') => session_state' = session_state]_vars
    /\ [][BadSource(source) => last'.op = "upload"]_vars

\* C10 witness: a bad source was uploaded while a question was being answered.
C10_Witness ==
    /\ BadSource(source)
    /\ Initialized
    /\ last.op = "upload"
    /\ session_state.current_question # NoQuestion
    /\ session_state.score = 1

\* C11: load_data returns None, with the ValueError of line 80, for every
\* parsed CSV that lacks one of the four required columns, and the run stops
\* without widgets; it returns the frame, rows unchanged, for every CSV that
\* has the four, with or without another column, and the run goes on.
C11_RequiredColumns ==
    source.kind = "csv" =>
        LET df == load_data(source)
        IN  /\ ~(required_columns \subseteq source.cols) =>
                  /\ df.none
                  /\ df.error = "ValueError"
                  /\ Offered = {}
            /\ required_columns \subseteq source.cols =>
                  /\ ~df.none
                  /\ df.rows = source.rows
                  /\ Initialized
                  /\ "start" \in Offered

\* C11 witness: an uploaded CSV with the four required columns and one more
\* was loaded and the run went on to the Start Quiz button.
C11_Witness ==
    /\ source.kind = "csv"
    /\ required_columns \subseteq source.cols
    /\ "notes" \in source.cols
    /\ last.op = "upload"
    /\ Initialized
    /\ "start" \in Offered

\* C12 (as claimed): load_data returns None with the empty-source error for
\* every source without data rows: the source without bytes and the CSV that
\* is only a header with the four required columns.
C12_EmptySourceRejected ==
    (/\ source.rows = <<>>
     /\ \/ source.kind = "empty"
        \/ source.kind = "csv" /\ required_columns \subseteq source.cols) =>
        /\ load_data(source).none
        /\ load_data(source).error = "EmptyDataError"

\* C13 (as claimed): however the pronunciation lookup ends, a Revealed page
\* whose word is in the table offers Next Question and Reset Quiz.
C13_LookupNeverBlocks ==
    (/\ Initialized
     /\ ~load_data(source).none
     /\ Revealed
     /\ ~details_fail(session_state, load_data(source))) =>
        {"next", "reset"} \subseteq Offered

\* C14 (as claimed): the score never exceeds question_number, and a Submit
\* Answer changes the score only in Answering.
C14_OnePointPerQuestion ==
    /\ [](Initialized => session_state.score <= session_state.question_number)
    /\ [][(last'.op = "submit" /\ session_state'.score # session_state.score)
            => Answering]_vars

\* C15 (as claimed): Next Question is on the page only in Revealed, a click on
\* it acts only in Revealed, and no Next Question follows a Next Question
\* without a Submit Answer between them.
C15_NextOnlyInRevealed ==
    /\ []("next" \in Offered => Revealed)
    /\ [][last'.op = "next" => (Revealed /\ last.op # "next")]_vars

\* C16 (as claimed): show_details is set only with a current question, and
\* without a current question the score is 0 and question_number is 1.
C16_OneOfThreeStates ==
    Initialized =>
        /\ session_state.show_details => session_state.current_question # NoQuestion
        /\ session_state.current_question = NoQuestion =>
              (session_state.score = 0 /\ session_state.question_number = 1)

\* C17 (as claimed): the score of the score line never exceeds its
\* denominator max(question_number - 1, 0).
C17_ScoreWithinDenominator ==
    Initialized => session_state.score <= current_num(session_state)

\* C18 (as claimed): the word whose details a Revealed page displays is one of
\* the choices of the question; it is the correct word when the submitted
\* answer was found correct and another word when it was found incorrect.
C18_DetailsOfSubmittedAnswer ==
    (Initialized /\ Revealed /\ "next" \in Offered) =>
        LET word == details_word(session_state)
            q == session_state.current_question
        IN  /\ word \in Elements(q.choices)
            /\ session_state.result_message.text = "Correct!" => word = q.correct_word
            /\ session_state.result_message.text = "Incorrect" => word # q.correct_word

====
